---- MODULE Spec2Model ----
(***************************************************************************)
(* mpv-music: the incremental indexing engine (src/src/indexer.rs) and the  *)
(* resolution of the command line's filters (src/src/main.rs).             *)
(*                                                                         *)
(* Text is modelled at the level of characters: a string is a sequence of  *)
(* one-character strings, the cache file is the sequence of its bytes, and *)
(* serde_json's writer and reader are modelled by what they do to those    *)
(* characters (escaping, decimal numbers, line splitting).                 *)
(***************************************************************************)
EXTENDS Integers, Sequences, FiniteSets, TLC

VARIABLES
    fs,          \* path -> the file: present, mtime, size, content, statOk
    music_dirs,  \* config.music_dirs
    video_ok,    \* config.video_ok
    storage,     \* the mode of the data directory
    unreadable,  \* the directories under the roots that cannot be listed
    cacheFile,   \* music_index.jsonl: whether it exists, and its bytes
    ret,         \* the last call of the indexer and what it returned
    fresh,       \* the cache file is a scan's saved output and nothing changed since
    changesLeft,
    ext_arg,     \* the command line: --ext
    index,       \* main's tracks: the collection the filters run over
    args,        \* the command line: --genre, --artist, --album, --title
    play_all,    \* the command line: --play-all
    qs,          \* where the resolution of the filters is, and what it has found
    mn,          \* main: where a run of the program is, and what it holds
    configFile,  \* config.toml: the music_dirs it holds
    par          \* a scan by several workers: the walk, the workers, the collector

ivars ==
    <<fs, music_dirs, video_ok, storage, unreadable, cacheFile, ret, fresh,
      changesLeft, ext_arg>>
qvars == <<index, args, play_all, qs>>
mvars == <<mn, configFile>>
pvars == <<par>>
vars == <<ivars, qvars, mvars, pvars>>

\* ------------------------------------------------------------------ text

\* The byte of a file that is not valid UTF-8 (std::io::BufRead::lines fails on it).
BAD == "<FF>"

\* str::trim's white space, as far as the model's alphabet has it.
IsSpace(c) == c \in {" ", "\t", "\r", "\n"}

\* str::to_lowercase on the letters of the model's alphabet.
ToLowerChar(c) ==
    CASE c = "A" -> "a" [] c = "B" -> "b" [] c = "C" -> "c" [] c = "D" -> "d"
      [] c = "E" -> "e" [] c = "F" -> "f" [] c = "G" -> "g" [] c = "H" -> "h"
      [] c = "I" -> "i" [] c = "J" -> "j" [] c = "K" -> "k" [] c = "L" -> "l"
      [] c = "M" -> "m" [] c = "N" -> "n" [] c = "O" -> "o" [] c = "P" -> "p"
      [] c = "Q" -> "q" [] c = "R" -> "r" [] c = "S" -> "s" [] c = "T" -> "t"
      [] c = "U" -> "u" [] c = "V" -> "v" [] c = "W" -> "w" [] c = "X" -> "x"
      [] c = "Y" -> "y" [] c = "Z" -> "z"
      [] OTHER -> c

to_lowercase(s) == [i \in 1..Len(s) |-> ToLowerChar(s[i])]

\* s.trim().is_empty()
TrimIsEmpty(s) == \A i \in 1..Len(s) : IsSpace(s[i])

\* The index of the last occurrence of c in s, 0 when there is none.
LastIndexOf(s, c) ==
    LET hits == {i \in 1..Len(s) : s[i] = c}
    IN  IF hits = {} THEN 0 ELSE CHOOSE i \in hits : \A j \in hits : j <= i

\* The index of the first occurrence of c in s at or after from, 0 when none.
IndexFrom(s, c, from) ==
    LET hits == {i \in from..Len(s) : s[i] = c}
    IN  IF hits = {} THEN 0 ELSE CHOOSE i \in hits : \A j \in hits : i <= j

Range(s) == {s[i] : i \in 1..Len(s)}

\* Option: None, and Some(v).
None == [some |-> FALSE, val |-> <<>>]
Some(v) == [some |-> TRUE, val |-> v]

\* str::split: the pieces between the separators, the empty ones too.
RECURSIVE Split(_, _)
Split(s, seps) ==
    LET hits == {i \in 1..Len(s) : s[i] \in seps}
    IN  IF hits = {} THEN <<s>>
        ELSE LET k == CHOOSE i \in hits : \A j \in hits : i <= j
             IN  <<SubSeq(s, 1, k - 1)>> \o Split(SubSeq(s, k + 1, Len(s)), seps)

RECURSIVE Flatten(_)
Flatten(ss) == IF ss = <<>> THEN <<>> ELSE Head(ss) \o Flatten(Tail(ss))

\* ------------------------------------------------------- serde_json, writing

\* An escaping that leaves the control characters as they are.
EscapeChar_QuotesOnly(c) ==
    CASE c = "\"" -> <<"\\", "\"">>
      [] c = "\\" -> <<"\\", "\\">>
      [] OTHER -> <<c>>

\* serde_json escapes the quote, the backslash and the control characters.
EscapeChar(c) ==
    CASE c = "\"" -> <<"\\", "\"">>
      [] c = "\\" -> <<"\\", "\\">>
      [] c = "\n" -> <<"\\", "n">>
      [] c = "\r" -> <<"\\", "r">>
      [] c = "\t" -> <<"\\", "t">>
      [] OTHER -> <<c>>

JsonString(s) ==
    <<"\"">> \o Flatten([i \in 1..Len(s) |-> EscapeChar(s[i])]) \o <<"\"">>

DigitChars == <<"0", "1", "2", "3", "4", "5", "6", "7", "8", "9">>

RECURSIVE JsonNumber(_)
JsonNumber(n) ==
    IF n < 10 THEN <<DigitChars[n + 1]>>
    ELSE JsonNumber(n \div 10) \o <<DigitChars[(n % 10) + 1]>>

KeyPath == <<"p", "a", "t", "h">>
KeyTitle == <<"t", "i", "t", "l", "e">>
KeyArtist == <<"a", "r", "t", "i", "s", "t">>
KeyAlbum == <<"a", "l", "b", "u", "m">>
KeyGenre == <<"g", "e", "n", "r", "e">>
KeyMtime == <<"m", "t", "i", "m", "e">>
KeySize == <<"s", "i", "z", "e">>
KeyMediaType == <<"m", "e", "d", "i", "a", "_", "t", "y", "p", "e">>

StringKeys == {KeyPath, KeyTitle, KeyArtist, KeyAlbum, KeyGenre, KeyMediaType}
NumberKeys == {KeyMtime, KeySize}

\* struct Track, and the record serde derives for it.
Track(path, title, artist, album, genre, mtime, size, media_type) ==
    [path |-> path, title |-> title, artist |-> artist, album |-> album,
     genre |-> genre, mtime |-> mtime, size |-> size, media_type |-> media_type]

\* serde_json::to_writer(&mut writer, track): the fields in declaration order.
Serialize(t) ==
    <<"{">> \o JsonString(KeyPath) \o <<":">> \o JsonString(t.path)
    \o <<",">> \o JsonString(KeyTitle) \o <<":">> \o JsonString(t.title)
    \o <<",">> \o JsonString(KeyArtist) \o <<":">> \o JsonString(t.artist)
    \o <<",">> \o JsonString(KeyAlbum) \o <<":">> \o JsonString(t.album)
    \o <<",">> \o JsonString(KeyGenre) \o <<":">> \o JsonString(t.genre)
    \o <<",">> \o JsonString(KeyMtime) \o <<":">> \o JsonNumber(t.mtime)
    \o <<",">> \o JsonString(KeySize) \o <<":">> \o JsonNumber(t.size)
    \o <<",">> \o JsonString(KeyMediaType) \o <<":">> \o JsonString(t.media_type)
    \o <<"}">>

\* ------------------------------------------------------- serde_json, reading

\* A parse step's result: ok, the value read, and the index after it.
Fail == [ok |-> FALSE, val |-> <<>>, next |-> 0]
Got(v, n) == [ok |-> TRUE, val |-> v, next |-> n]

UnescapeChar(c) ==
    CASE c = "\"" -> "\""
      [] c = "\\" -> "\\"
      [] c = "/" -> "/"
      [] c = "n" -> "\n"
      [] c = "r" -> "\r"
      [] c = "t" -> "\t"
      [] OTHER -> BAD

\* The characters of a JSON string whose opening quote is before index i.
RECURSIVE ParseStringBody(_, _, _)
ParseStringBody(l, i, acc) ==
    IF i > Len(l) THEN Fail
    ELSE IF l[i] = "\"" THEN Got(acc, i + 1)
    ELSE IF l[i] = "\\" THEN
        IF i + 1 > Len(l) \/ UnescapeChar(l[i + 1]) = BAD THEN Fail
        ELSE ParseStringBody(l, i + 2, Append(acc, UnescapeChar(l[i + 1])))
    ELSE IF l[i] \in {"\n", "\r", "\t"} THEN Fail
    ELSE ParseStringBody(l, i + 1, Append(acc, l[i]))

ParseString(l, i) ==
    IF i <= Len(l) /\ l[i] = "\"" THEN ParseStringBody(l, i + 1, <<>>) ELSE Fail

DigitValue(c) == (CHOOSE d \in 1..10 : DigitChars[d] = c) - 1
IsDigit(c) == \E d \in 1..10 : DigitChars[d] = c

RECURSIVE ParseDigits(_, _, _)
ParseDigits(l, i, acc) ==
    IF i <= Len(l) /\ IsDigit(l[i])
    THEN ParseDigits(l, i + 1, acc * 10 + DigitValue(l[i]))
    ELSE Got(acc, i)

\* A u64: digits, no sign, no leading zero before another digit.
ParseNumber(l, i) ==
    IF i > Len(l) \/ ~IsDigit(l[i]) THEN Fail
    ELSE IF l[i] = "0" /\ i + 1 <= Len(l) /\ IsDigit(l[i + 1]) THEN Fail
    ELSE ParseDigits(l, i, 0)

\* The members of an object from index i on: a map from the keys read to their
\* values; serde rejects a field given twice and a field of the wrong type, and
\* ignores a key that is no field of Track.
RECURSIVE ParseMembers(_, _, _)
ParseMembers(l, i, seen) ==
    LET k == ParseString(l, i)
    IN  IF ~k.ok \/ k.next > Len(l) \/ l[k.next] # ":" THEN Fail
        ELSE
          LET v == IF k.val \in NumberKeys THEN ParseNumber(l, k.next + 1)
                   ELSE ParseString(l, k.next + 1)
              seen2 == IF k.val \in StringKeys \cup NumberKeys
                       THEN [x \in DOMAIN seen \cup {k.val} |->
                               IF x = k.val THEN v.val ELSE seen[x]]
                       ELSE seen
          IN  IF ~v.ok \/ k.val \in DOMAIN seen \/ v.next > Len(l) THEN Fail
              ELSE IF l[v.next] = "," THEN ParseMembers(l, v.next + 1, seen2)
              ELSE IF l[v.next] = "}" THEN Got(seen2, v.next + 1)
              ELSE Fail

\* serde_json::from_str::<Track>(&l): the whole line is one object holding
\* every field of Track.
from_str(l) ==
    IF Len(l) < 2 \/ l[1] # "{" THEN Fail
    ELSE
      LET m == ParseMembers(l, 2, <<>>)
      IN  IF ~m.ok \/ m.next # Len(l) + 1 THEN Fail
          ELSE IF DOMAIN m.val # StringKeys \cup NumberKeys THEN Fail
          ELSE Got(Track(m.val[KeyPath], m.val[KeyTitle], m.val[KeyArtist],
                         m.val[KeyAlbum], m.val[KeyGenre], m.val[KeyMtime],
                         m.val[KeySize], m.val[KeyMediaType]), Len(l) + 1)

\* ------------------------------------------------------------ configuration

Trim(s) ==
    LET keep == {i \in 1..Len(s) : ~IsSpace(s[i])}
    IN  IF keep = {} THEN <<>>
        ELSE SubSeq(s, CHOOSE i \in keep : \A j \in keep : i <= j,
                       CHOOSE i \in keep : \A j \in keep : j <= i)

\* to_set: "mp3, flac" -> Set, each entry trimmed and lower-cased.
to_set(exts) == {to_lowercase(Trim(exts[i])) : i \in 1..Len(exts)}

\* The extension lists of the configuration (a part of Config::default's lists;
\* one entry is written the way a hand-edited config.toml may hold it).
audio_exts == << <<"m", "p", "3">>, <<" ", "F", "L", "A", "C">> >>
video_exts == << <<"m", "k", "v">>, <<"m", "p", "4">> >>
playlist_exts == << <<"m", "3", "u">>, <<"p", "l", "s">> >>

\* ------------------------------------------------------------- file system

DirM == <<"/", "m">>
DirS == <<"/", "m", "/", "s">>

P1 == DirM \o <<"/", "a", ".", "m", "p", "3">>
P2 == DirS \o <<"/", "B", ".", "M", "P", "3">>
P3 == DirM \o <<"/", "p", ".", "m", "3", "u">>
P4 == DirM \o <<"/", "v", ".", "m", "k", "v">>
P5 == DirM \o <<"/", "c", ".", "f", "l", "a", "c">>

\* The order in which the directory walk meets the files.
WalkOrder == <<P1, P3, P4, P5, P2>>
Paths == {WalkOrder[i] : i \in 1..Len(WalkOrder)}

IsUnder(path, dir) ==
    /\ Len(path) > Len(dir) + 1
    /\ SubSeq(path, 1, Len(dir)) = dir
    /\ path[Len(dir) + 1] = "/"

\* Path::file_name, Path::extension and Path::file_stem; <<>> stands for None
\* (a name that has no dot, or only a leading one, has no extension).
FileName(path) == SubSeq(path, LastIndexOf(path, "/") + 1, Len(path))
HasExtension(path) == LastIndexOf(FileName(path), ".") > 1
Extension(path) ==
    LET n == FileName(path) IN SubSeq(n, LastIndexOf(n, ".") + 1, Len(n))
FileStem(path) ==
    LET n == FileName(path)
    IN  IF HasExtension(path) THEN SubSeq(n, 1, LastIndexOf(n, ".") - 1) ELSE n

\* What a file holds, as far as lofty's probe can tell.
Contents == {"corrupt", "untagged", "tagA", "tagB"}

NoTags == [title |-> <<>>, artist |-> <<>>, album |-> <<>>, genre |-> <<>>]
TagsA == [title |-> <<"S", "\"", "1">>, artist |-> <<"A", "d", "o">>,
          album |-> <<"x", "\\", "y">>, genre |-> <<"P", "o", "p", ";", "R", "o", "c", "k">>]
TagsB == [title |-> <<>>, artist |-> <<"A", "\n", "B">>, album |-> <<>>,
          genre |-> <<"R", "o", "c", "k">>]

\* Probe::open(path).and_then(|p| p.read()), then primary_tag().or_else(first_tag):
\* the four fields, each unwrap_or_default; a failed probe and a file without a
\* tag both leave the four empty strings the caller initialised.
Probe(content) ==
    CASE content = "tagA" -> TagsA
      [] content = "tagB" -> TagsB
      [] OTHER -> NoTags

MediaAudio == <<"a", "u", "d", "i", "o">>
MediaVideo == <<"v", "i", "d", "e", "o">>
MediaPlaylist == <<"p", "l", "a", "y", "l", "i", "s", "t">>
MediaNone == <<>>

StrPlaylist == <<"P", "l", "a", "y", "l", "i", "s", "t">>
StrPlaylists == <<"P", "l", "a", "y", "l", "i", "s", "t", "s">>
StrUnknown == <<"U", "N", "K", "N", "O", "W", "N">>

\* The values --ext is given on the command line.
ExtArgs == {None, Some(<<"m", "p", "3", ",", " ", "M", "3", "U", ",", ",", "m", "k", "v">>)}

\* cfg.audio_exts of the run: the pieces of --ext between commas, trimmed, the
\* empty ones left out, in the place of the configuration's list.
cfg_audio_exts ==
    IF ext_arg.some
    THEN LET pieces == Split(ext_arg.val, {","})
         IN  SelectSeq([i \in 1..Len(pieces) |-> Trim(pieces[i])],
                       LAMBDA x : x # <<>>)
    ELSE audio_exts

\* The classification with the playlist set looked at before the audio set.
Classify_PlaylistFirst(ext, videoOk) ==
    IF ext \in to_set(playlist_exts) THEN MediaPlaylist
    ELSE IF ext \in to_set(cfg_audio_exts) THEN MediaAudio
    ELSE IF videoOk /\ ext \in to_set(video_exts) THEN MediaVideo
    ELSE MediaNone

\* The media type of a lower-cased extension; MediaNone: the file is skipped.
Classify(ext, videoOk) ==
    IF ext \in to_set(cfg_audio_exts) THEN MediaAudio
    ELSE IF ext \in to_set(playlist_exts) THEN MediaPlaylist
    ELSE IF videoOk /\ ext \in to_set(video_exts) THEN MediaVideo
    ELSE MediaNone

\* old_cache: path -> Track; collecting into the HashMap keeps the last entry
\* of a path that occurs more than once.
OldCache(old_tracks) ==
    [p \in {old_tracks[i].path : i \in 1..Len(old_tracks)} |->
        LET at == {i \in 1..Len(old_tracks) : old_tracks[i].path = p}
        IN  old_tracks[CHOOSE i \in at : \A j \in at : j <= i]]

\* The smart check by the path alone.
CacheHit_PathOnly(old_cache, path, mtime, size) == path \in DOMAIN old_cache

\* The smart check without the comparison of the sizes.
CacheHit_MtimeOnly(old_cache, path, mtime, size) ==
    /\ path \in DOMAIN old_cache
    /\ old_cache[path].mtime = mtime

\* The smart check: an old entry of the path with the same mtime and size.
CacheHit(old_cache, path, mtime, size) ==
    /\ path \in DOMAIN old_cache
    /\ old_cache[path].mtime = mtime
    /\ old_cache[path].size = size

\* The field as the probe gave it, empty or not.
OrElse_Keep(s, fallback) == s

\* if field.is_empty() { field = fallback }
OrElse(s, fallback) == IF s = <<>> THEN fallback ELSE s

\* The Track built on a cache miss with every file probed, playlists too.
BuildTrack_ProbesPlaylist(path, f, media_type) ==
    LET tags == Probe(f.content)
    IN  Track(path, OrElse(tags.title, FileStem(path)),
              OrElse(tags.artist, StrUnknown), OrElse(tags.album, StrUnknown),
              OrElse(tags.genre, StrUnknown), f.mtime, f.size, media_type)

\* The Track built on a cache miss.
BuildTrack(path, f, media_type) ==
    LET tags == IF media_type = MediaPlaylist
                THEN [title |-> FileStem(path), artist |-> StrPlaylist,
                      album |-> StrPlaylists, genre |-> StrPlaylist]
                ELSE Probe(f.content)
    IN  Track(path, OrElse(tags.title, FileStem(path)),
              OrElse(tags.artist, StrUnknown), OrElse(tags.album, StrUnknown),
              OrElse(tags.genre, StrUnknown), f.mtime, f.size, media_type)

\* The closure of filter_map for one walked entry: whether the progress bar
\* counted it, whether a Track is emitted, that Track, and whether the file
\* was a cache hit or was probed.
Skipped == [counted |-> FALSE, emit |-> FALSE, track |-> <<>>, hit |-> FALSE,
            probed |-> FALSE]

ProcessEntry(path, f, old_cache, videoOk) ==
    LET media_type == Classify(to_lowercase(Extension(path)), videoOk)
    IN  IF ~f.present \/ ~HasExtension(path) \/ media_type = MediaNone THEN Skipped
        ELSE IF ~f.statOk THEN [Skipped EXCEPT !.counted = TRUE]
        ELSE IF CacheHit(old_cache, path, f.mtime, f.size)
        THEN [counted |-> TRUE, emit |-> TRUE, track |-> old_cache[path],
              hit |-> TRUE, probed |-> FALSE]
        ELSE [counted |-> TRUE, emit |-> TRUE,
              track |-> BuildTrack(path, f, media_type), hit |-> FALSE,
              probed |-> media_type # MediaPlaylist]

\* The walk of dir cannot get to path: a directory it has to list on the way
\* (dir itself, or one below it) cannot be read.
Blocked(path, dir, noread) ==
    \E d \in noread : (d = dir \/ IsUnder(d, dir)) /\ IsUnder(path, d)

\* WalkDir::new(dir).into_iter().filter_map(|e| e.ok()): the files under dir,
\* in walk order; the error WalkDir yields for a directory it cannot list is
\* dropped, and nothing below that directory is yielded.
Walk(dir, noread) ==
    SelectSeq(WalkOrder, LAMBDA p : IsUnder(p, dir) /\ ~Blocked(p, dir, noread))

\* config.music_dirs.iter().flat_map(walk)
Entries(dirs, noread) == Flatten([i \in 1..Len(dirs) |-> Walk(dirs[i], noread)])

\* -------------------------------------------------------------- cache file

\* The state of the data directory, as the calls on it see it:
\*   ok          every call succeeds
\*   readonly    the file can be read; File::create fails
\*   unreadable  the file is there; File::open and File::create fail
\*   noaccess    the directory cannot be searched: exists() is false, create fails
\*   full        File::create truncates the file, then a write fails
StorageModes == {"ok", "readonly", "unreadable", "noaccess", "full"}

NoFile == [exists |-> FALSE, data |-> <<>>]
FileOf(data) == [exists |-> TRUE, data |-> data]

\* What the loop of save writes: every record, then a newline.
SaveData(tracks) ==
    Flatten([i \in 1..Len(tracks) |-> Serialize(tracks[i]) \o <<"\n">>])

\* The lengths at which a failing write may leave the file: after each whole
\* record but the last, and in the middle of each record.
Cuts(tracks) ==
    UNION {LET before == Len(SaveData(SubSeq(tracks, 1, k)))
           IN  {before, before + (Len(Serialize(tracks[k + 1])) \div 2)}
           : k \in 0..(Len(tracks) - 1)}

\* save that does not look at the result of its writes and of the flush.
SaveOutcomes_WritesUnchecked(tracks, file, mode) ==
    IF mode \in {"readonly", "unreadable", "noaccess"}
    THEN {[ok |-> FALSE, file |-> file]}
    ELSE IF mode = "full" /\ tracks # <<>>
    THEN {[ok |-> TRUE, file |-> FileOf(SubSeq(SaveData(tracks), 1, c))]
          : c \in Cuts(tracks)}
    ELSE {[ok |-> TRUE, file |-> FileOf(SaveData(tracks))]}

\* save(tracks): the outcomes, each the Result and the file left behind.
SaveOutcomes(tracks, file, mode) ==
    IF mode \in {"readonly", "unreadable", "noaccess"}
    THEN {[ok |-> FALSE, file |-> file]}
    ELSE IF mode = "full" /\ tracks # <<>>
    THEN {[ok |-> FALSE, file |-> FileOf(SubSeq(SaveData(tracks), 1, c))]
          : c \in Cuts(tracks)}
    ELSE {[ok |-> TRUE, file |-> FileOf(SaveData(tracks))]}

\* BufRead::lines: the text up to each newline, without it and without a
\* carriage return before it; what follows the last newline is a line too.
StripCR(l) ==
    IF l # <<>> /\ l[Len(l)] = "\r" THEN SubSeq(l, 1, Len(l) - 1) ELSE l

RECURSIVE SplitLines(_)
SplitLines(data) ==
    IF data = <<>> THEN <<>>
    ELSE LET nl == IndexFrom(data, "\n", 1)
         IN  IF nl = 0 THEN <<data>>
             ELSE <<StripCR(SubSeq(data, 1, nl - 1))>>
                  \o SplitLines(SubSeq(data, nl + 1, Len(data)))

IsValidUtf8(l) == \A i \in 1..Len(l) : l[i] # BAD

\* The loop leaving at the first line that fails to parse.
RECURSIVE ReadLoop_BreakOnError(_, _, _, _)
ReadLoop_BreakOnError(lines, i, tracks, needs_repair) ==
    IF i > Len(lines)
    THEN [ok |-> TRUE, tracks |-> tracks, needs_repair |-> needs_repair]
    ELSE IF ~IsValidUtf8(lines[i])
    THEN [ok |-> FALSE, tracks |-> <<>>, needs_repair |-> FALSE]
    ELSE IF TrimIsEmpty(lines[i])
    THEN ReadLoop_BreakOnError(lines, i + 1, tracks, needs_repair)
    ELSE LET r == from_str(lines[i])
         IN  IF r.ok
             THEN ReadLoop_BreakOnError(lines, i + 1, Append(tracks, r.val),
                                        needs_repair)
             ELSE [ok |-> TRUE, tracks |-> tracks, needs_repair |-> TRUE]

\* The loop of load_index over the lines: Err at the first line that cannot be
\* read, else the Tracks parsed and whether a line failed to parse.
RECURSIVE ReadLoop(_, _, _, _)
ReadLoop(lines, i, tracks, needs_repair) ==
    IF i > Len(lines)
    THEN [ok |-> TRUE, tracks |-> tracks, needs_repair |-> needs_repair]
    ELSE IF ~IsValidUtf8(lines[i])
    THEN [ok |-> FALSE, tracks |-> <<>>, needs_repair |-> FALSE]
    ELSE IF TrimIsEmpty(lines[i]) THEN ReadLoop(lines, i + 1, tracks, needs_repair)
    ELSE LET r == from_str(lines[i])
         IN  IF r.ok THEN ReadLoop(lines, i + 1, Append(tracks, r.val), needs_repair)
             ELSE ReadLoop(lines, i + 1, tracks, TRUE)

LoadErr(file) ==
    [ok |-> FALSE, tracks |-> <<>>, needs_repair |-> FALSE, file |-> file]

\* load_index without the save of its repair.
LoadOutcomes_NoRepair(file, mode) ==
    IF ~file.exists \/ mode = "noaccess"
    THEN {[ok |-> TRUE, tracks |-> <<>>, needs_repair |-> FALSE, file |-> file]}
    ELSE IF mode = "unreadable" THEN {LoadErr(file)}
    ELSE LET r == ReadLoop(SplitLines(file.data), 1, <<>>, FALSE)
         IN  IF ~r.ok THEN {LoadErr(file)}
             ELSE {[ok |-> TRUE, tracks |-> r.tracks,
                    needs_repair |-> r.needs_repair, file |-> file]}

\* load_index saving the Tracks whenever it skipped or dropped a line.
LoadOutcomes_SaveAlways(file, mode) ==
    IF ~file.exists \/ mode = "noaccess"
    THEN {[ok |-> TRUE, tracks |-> <<>>, needs_repair |-> FALSE, file |-> file]}
    ELSE IF mode = "unreadable" THEN {LoadErr(file)}
    ELSE LET r == ReadLoop(SplitLines(file.data), 1, <<>>, FALSE)
         IN  IF ~r.ok THEN {LoadErr(file)}
             ELSE IF r.needs_repair \/ Len(r.tracks) # Len(SplitLines(file.data))
             THEN {IF o.ok
                   THEN [ok |-> TRUE, tracks |-> r.tracks,
                         needs_repair |-> r.needs_repair, file |-> o.file]
                   ELSE LoadErr(o.file)
                   : o \in SaveOutcomes(r.tracks, file, mode)}
             ELSE {[ok |-> TRUE, tracks |-> r.tracks, needs_repair |-> FALSE,
                    file |-> file]}

\* load_index(): the outcomes, each the Result and the file left behind (the
\* repair saves the surviving Tracks before load_index returns).
LoadOutcomes(file, mode) ==
    IF ~file.exists \/ mode = "noaccess"
    THEN {[ok |-> TRUE, tracks |-> <<>>, needs_repair |-> FALSE, file |-> file]}
    ELSE IF mode = "unreadable" THEN {LoadErr(file)}
    ELSE LET r == ReadLoop(SplitLines(file.data), 1, <<>>, FALSE)
         IN  IF ~r.ok THEN {LoadErr(file)}
             ELSE IF r.needs_repair
             THEN {IF o.ok
                   THEN [ok |-> TRUE, tracks |-> r.tracks, needs_repair |-> TRUE,
                         file |-> o.file]
                   ELSE LoadErr(o.file)
                   : o \in SaveOutcomes(r.tracks, file, mode)}
             ELSE {[ok |-> TRUE, tracks |-> r.tracks, needs_repair |-> FALSE,
                    file |-> file]}

\* ------------------------------------------------------------------ scan

\* load_index called whatever force is.
PriorLoad_IgnoreForce(force, file, mode) == LoadOutcomes(file, mode)

\* What scan gets from load_index: nothing is loaded when the reindex is
\* forced (ok is then FALSE and the file is not touched).
PriorLoad(force, file, mode) ==
    IF force THEN {LoadErr(file)} ELSE LoadOutcomes(file, mode)

\* The two arms of the if let exchanged.
OldTracks_Inverted(lo) == IF lo.ok THEN <<>> ELSE lo.tracks

\* The old snapshot scan works with: the Tracks load_index returned, nothing
\* when it failed or was not called.
OldTracks(lo) == IF lo.ok THEN lo.tracks ELSE <<>>

\* The filter_map over the walked entries, in walk order.
ScanResults(dirs, noread, videoOk, files, old_tracks) ==
    LET entries == Entries(dirs, noread)
    IN  [i \in 1..Len(entries) |->
            ProcessEntry(entries[i], files[entries[i]], OldCache(old_tracks), videoOk)]

\* The collection ending at the first file whose metadata could not be read.
Emitted_StopAtError(results) ==
    LET bad == {i \in 1..Len(results) : results[i].counted /\ ~results[i].emit}
        upto == IF bad = {} THEN Len(results)
                ELSE (CHOOSE i \in bad : \A j \in bad : i <= j) - 1
        kept == SelectSeq(SubSeq(results, 1, upto), LAMBDA r : r.emit)
    IN  [i \in 1..Len(kept) |-> kept[i].track]

\* The Tracks of the entries the closure returned Some for, in walk order.
Emitted(results) ==
    LET kept == SelectSeq(results, LAMBDA r : r.emit)
    IN  [i \in 1..Len(kept) |-> kept[i].track]

PathsOf(results) == [i \in 1..Len(results) |-> results[i].track.path]

\* The paths Probe::open was called on, and those of the cache hits.
ProbedPaths(results) == PathsOf(SelectSeq(results, LAMBDA r : r.probed))
HitPaths(results) == PathsOf(SelectSeq(results, LAMBDA r : r.hit))

\* ------------------------------------------------------------- the filters

\* str::contains
Contains(hay, needle) ==
    \E i \in 0..(Len(hay) - Len(needle)) : SubSeq(hay, i + 1, i + Len(needle)) = needle

\* prepare_terms: the value of a flag lower-cased and split on ',', each piece
\* trimmed, the empty pieces left out; None for a flag that is not given.
prepare_terms(arg) ==
    IF ~arg.some THEN None
    ELSE LET pieces == Split(to_lowercase(arg.val), {","})
             trimmed == [i \in 1..Len(pieces) |-> Trim(pieces[i])]
         IN  Some(SelectSeq(trimmed, LAMBDA t : t # <<>>))

\* The exact test with a term that is contained in a tag taken for a match.
matches_exact_Contains(field_lower, search_vals) ==
    \E i \in 1..Len(search_vals) :
        LET tags == Split(field_lower, {";", ","})
        IN  \E j \in 1..Len(tags) : Contains(Trim(tags[j]), search_vals[i])

\* The exact arm of matches: a term equal to a trimmed tag of the field.
matches_exact(field_lower, search_vals) ==
    \E i \in 1..Len(search_vals) :
        LET tags == Split(field_lower, {";", ","})
        IN  \E j \in 1..Len(tags) : Trim(tags[j]) = search_vals[i]

\* The partial test against the tags of the field, one by one, trimmed.
matches_partial_PerTag(field_lower, search_vals) ==
    \E i \in 1..Len(search_vals) :
        LET tags == Split(field_lower, {";", ","})
        IN  \E j \in 1..Len(tags) : Contains(Trim(tags[j]), search_vals[i])

\* The partial arm of matches: a term contained in the field.
matches_partial(field_lower, search_vals) ==
    \E i \in 1..Len(search_vals) : Contains(field_lower, search_vals[i])

\* The closure matches of apply_cli_filters.
matches(field, terms, exact) ==
    IF ~terms.some THEN TRUE
    ELSE IF exact THEN matches_exact(to_lowercase(field), terms.val)
    ELSE matches_partial(to_lowercase(field), terms.val)

\* The title test: the lower-cased flag contained in the lower-cased title.
title_matches(title, arg, exact) ==
    arg.some => Contains(to_lowercase(title), to_lowercase(arg.val))

\* apply_cli_filters(tracks, cli, exact)
apply_cli_filters(tracks, cli, exact) ==
    LET genre_terms == prepare_terms(cli.genre)
        artist_terms == prepare_terms(cli.artist)
        album_terms == prepare_terms(cli.album)
    IN  SelectSeq(tracks, LAMBDA t :
            /\ matches(t.genre, genre_terms, exact)
            /\ matches(t.artist, artist_terms, exact)
            /\ matches(t.album, album_terms, exact)
            /\ title_matches(t.title, cli.title, exact))

\* is_multi_value_search: a ',' in the value of --artist, --genre or --album.
is_multi_value_search(cli) ==
    \E a \in {cli.artist, cli.genre, cli.album} : a.some /\ Contains(a.val, <<",">>)

\* active_key: the first flag given, of artist, genre and album; "" for none.
active_key(cli) ==
    IF cli.artist.some THEN "artist"
    ELSE IF cli.genre.some THEN "genre"
    ELSE IF cli.album.some THEN "album"
    ELSE ""

\* unique_options: the values of the active tag over the partial matches.
unique_options(partials, key) ==
    IF key = "" THEN {} ELSE {partials[i][key] : i \in 1..Len(partials)}

\* The clarification is skipped when the active tag has one value only, when
\* no tag is active and in a multi-value search.
asks(options, key, multi) == Cardinality(options) > 1 /\ key # "" /\ ~multi

\* The arguments as they were, the clarified value left out.
temp_args_Unchanged(cli, key, clarified) == cli

\* temp_args: the arguments with the clarified value as the active flag.
temp_args(cli, key, clarified) == [cli EXCEPT ![key] = Some(clarified)]

\* --------------------------------------------------------------- the state

\* How many changes of its environment (the music files, the configuration,
\* the data directory and the cache file in it) a behaviour has.
MaxChanges == 1

NoRet ==
    [op |-> "none", ok |-> TRUE, force |-> FALSE, tracks |-> <<>>,
     needs_repair |-> FALSE, loaded |-> FALSE, old |-> <<>>, probed |-> <<>>,
     hits |-> <<>>, pos |-> 0, prev |-> "none"]

\* The call before the one ret describes: "failed" when it returned Err,
\* "repair" when it was a load that repaired the file.
PrevOf(r) ==
    IF ~r.ok THEN "failed"
    ELSE IF r.op = "load" /\ r.needs_repair THEN "repair" ELSE r.op

InitFile(p) ==
    [present |-> p # P5, mtime |-> 9, size |-> 99, statOk |-> TRUE,
     content |-> CASE p = P1 -> "tagA" [] p \in {P2, P4} -> "corrupt"
                   [] OTHER -> "untagged"]

\* No filter given: main goes on to its menus.
NoArgs == [genre |-> None, artist |-> None, album |-> None, title |-> None]

QStart ==
    [pc |-> "start", multi |-> FALSE, pass1 |-> FALSE, exact |-> <<>>,
     partials |-> <<>>, key |-> "", options |-> {}, clarified |-> None,
     filtered |-> <<>>, outcome |-> "", played |-> <<>>, handed |-> <<>>]

\* No run of main, and no scan by several workers, is under way. Of a run of
\* main: where it is (pc), what it was started for (flow), the Tracks
\* load_index returned and its needs_repair, the scan made (none, incr, full)
\* and its output, whether that was saved, the Tracks main works with, and
\* whether the directories were changed and the index synced to them.
MIdle ==
    [pc |-> "none", flow |-> "", reindex |-> FALSE, loaded |-> <<>>,
     was_repaired |-> FALSE, force |-> FALSE, scanned |-> "none", out |-> <<>>,
     saved |-> FALSE, tracks |-> <<>>, changed |-> FALSE, synced |-> FALSE]
PIdle == [pc |-> "none", slot |-> <<>>]

IndexerInit ==
    /\ fs = [p \in Paths |-> InitFile(p)]
    /\ music_dirs = <<DirM>>
    /\ video_ok = FALSE
    /\ storage = "ok"
    /\ unreadable = {}
    /\ cacheFile = NoFile
    /\ ret = NoRet
    /\ fresh = FALSE
    /\ changesLeft = MaxChanges
    /\ ext_arg = None

Init ==
    /\ IndexerInit
    /\ index = <<>>
    /\ args = NoArgs
    /\ play_all = FALSE
    /\ qs = QStart
    /\ mn = MIdle
    /\ configFile = music_dirs
    /\ par = PIdle

\* scan(config, force), with the default serial_mode (one worker: the Tracks
\* are collected in walk order).
Scan(force) ==
    /\ IF music_dirs = <<>>
       THEN /\ ret' = [NoRet EXCEPT !.op = "scan", !.force = force,
                                     !.prev = PrevOf(ret)]
            /\ cacheFile' = cacheFile
       ELSE \E lo \in PriorLoad(force, cacheFile, storage) :
              LET old == OldTracks(lo)
                  results == ScanResults(music_dirs, unreadable, video_ok, fs, old)
              IN  /\ cacheFile' = lo.file
                  /\ ret' = [op |-> "scan", ok |-> TRUE, force |-> force,
                             tracks |-> Emitted(results), needs_repair |-> FALSE,
                             loaded |-> lo.ok, old |-> old, prev |-> PrevOf(ret),
                             probed |-> ProbedPaths(results),
                             hits |-> HitPaths(results),
                             pos |-> Len(SelectSeq(results, LAMBDA r : r.counted))]
    /\ fresh' = (fresh /\ cacheFile' = cacheFile)
    /\ UNCHANGED <<fs, music_dirs, video_ok, storage, unreadable, changesLeft, ext_arg, qvars, mvars, pvars>>

\* Collections save is called with besides a scan's or a load's result.
SampleTrack1 ==
    Track(P1, <<>>, <<"a", ",", "b">>, <<"\t">>, <<"\\", "\"">>, 0, 10, MediaAudio)
SampleTrack2 ==
    Track(P1, <<"{", "}">>, <<":">>, <<" ">>, <<"\r">>, 100, 7, MediaVideo)
SaveSamples == {<<>>, <<SampleTrack1, SampleTrack2>>}

\* save(tracks)
Save(tracks) ==
    /\ \E o \in SaveOutcomes(tracks, cacheFile, storage) :
         /\ cacheFile' = o.file
         /\ ret' = [NoRet EXCEPT !.op = "save", !.ok = o.ok, !.tracks = tracks,
                                 !.prev = PrevOf(ret)]
         /\ fresh' = IF ret.op = "scan" /\ tracks = ret.tracks THEN o.ok
                     ELSE fresh /\ cacheFile' = cacheFile
    /\ UNCHANGED <<fs, music_dirs, video_ok, storage, unreadable, changesLeft, ext_arg, qvars, mvars, pvars>>

SaveCall ==
    \E tracks \in SaveSamples \cup (IF ret.op \in {"scan", "load"} /\ ret.ok
                                    THEN {ret.tracks} ELSE {}) : Save(tracks)

\* load_index()
Load ==
    /\ \E lo \in LoadOutcomes(cacheFile, storage) :
         /\ cacheFile' = lo.file
         /\ ret' = [NoRet EXCEPT !.op = "load", !.ok = lo.ok, !.tracks = lo.tracks,
                                 !.needs_repair = lo.needs_repair,
                                 !.prev = PrevOf(ret)]
    /\ fresh' = (fresh /\ cacheFile' = cacheFile)
    /\ UNCHANGED <<fs, music_dirs, video_ok, storage, unreadable, changesLeft, ext_arg, qvars, mvars, pvars>>

\* ------------------------------------------------------- the environment

Change ==
    /\ changesLeft > 0
    /\ changesLeft' = changesLeft - 1
    /\ ret' = NoRet
    /\ fresh' = FALSE

FsChange(p, f) ==
    /\ Change
    /\ fs' = [fs EXCEPT ![p] = f]
    /\ UNCHANGED <<music_dirs, video_ok, storage, unreadable, cacheFile, ext_arg, qvars, mvars, pvars>>

\* The file is written again: a later mtime.
Touch(p) == fs[p].present /\ FsChange(p, [fs[p] EXCEPT !.mtime = @ + 1])

\* The file changes its size and keeps its mtime.
Resize(p) == fs[p].present /\ FsChange(p, [fs[p] EXCEPT !.size = @ + 1])

NextContent(c) ==
    CASE c = "tagA" -> "tagB" [] c = "tagB" -> "untagged"
      [] c = "untagged" -> "corrupt" [] OTHER -> "tagA"

\* The file's tags change while its mtime and size stay.
Retag(p) ==
    fs[p].present /\ FsChange(p, [fs[p] EXCEPT !.content = NextContent(@)])

Delete(p) == fs[p].present /\ FsChange(p, [fs[p] EXCEPT !.present = FALSE])

Create(p) ==
    ~fs[p].present
    /\ FsChange(p, [fs[p] EXCEPT !.present = TRUE, !.content = "tagB"])

\* The file's metadata can no longer be read, or can again.
StatFlip(p) == fs[p].present /\ FsChange(p, [fs[p] EXCEPT !.statOk = ~@])

\* add_directory(cfg, dir)
AddDir(dir) ==
    /\ \A i \in 1..Len(music_dirs) : music_dirs[i] # dir
    /\ Change
    /\ music_dirs' = Append(music_dirs, dir)
    /\ UNCHANGED <<fs, video_ok, storage, unreadable, cacheFile, ext_arg, qvars, mvars, pvars>>

\* remove_directory(cfg, dir)
RemoveDir(dir) ==
    /\ \E i \in 1..Len(music_dirs) : music_dirs[i] = dir
    /\ Change
    /\ music_dirs' = SelectSeq(music_dirs, LAMBDA d : d # dir)
    /\ UNCHANGED <<fs, video_ok, storage, unreadable, cacheFile, ext_arg, qvars, mvars, pvars>>

\* video_ok is set in config.toml, or by --video-ok.
SetVideo ==
    /\ Change
    /\ video_ok' = ~video_ok
    /\ UNCHANGED <<fs, music_dirs, storage, unreadable, cacheFile, ext_arg, qvars, mvars, pvars>>

SetStorage(mode) ==
    /\ mode # storage
    /\ Change
    /\ storage' = mode
    /\ UNCHANGED <<fs, music_dirs, video_ok, unreadable, cacheFile, ext_arg, qvars, mvars, pvars>>

\* A run with --ext after one without it, or the other way round.
SetExt ==
    /\ Change
    /\ ext_arg' \in ExtArgs \ {ext_arg}
    /\ UNCHANGED <<fs, music_dirs, video_ok, storage, unreadable, cacheFile,
                   qvars, mvars, pvars>>

\* A directory below a root can no longer be listed, or can again.
Chmod(dir) ==
    /\ Change
    /\ unreadable' = IF dir \in unreadable THEN unreadable \ {dir}
                     ELSE unreadable \cup {dir}
    /\ UNCHANGED <<fs, music_dirs, video_ok, storage, cacheFile, ext_arg, qvars, mvars, pvars>>

\* The cache file after damage: a blank line, a line that is no Track or a
\* line that is not UTF-8 put before its content, a line that is no Track or
\* is not UTF-8 put after it, its final newline lost, or its last record torn
\* in the middle.
Damaged(file) ==
    LET d == file.data
        lines == SplitLines(d)
        last == IF lines = <<>> THEN <<>> ELSE lines[Len(lines)]
    IN  {FileOf(l \o <<"\n">> \o d) : l \in {<<" ">>, <<"{", "}">>, <<BAD>>}}
        \cup {FileOf(d \o l \o <<"\n">>) : l \in {<<"x">>, <<BAD>>}}
        \cup (IF d = <<>> THEN {}
              ELSE {FileOf(SubSeq(d, 1, Len(d) - 1)),
                    FileOf(SubSeq(d, 1, Len(d) - 1 - (Len(last) \div 2)))})

Damage ==
    /\ Change
    /\ cacheFile' \in Damaged(cacheFile)
    /\ UNCHANGED <<fs, music_dirs, video_ok, storage, unreadable, ext_arg, qvars, mvars, pvars>>

Next ==
    \/ \E force \in BOOLEAN : Scan(force)
    \/ SaveCall
    \/ Load
    \/ \E p \in Paths : Touch(p)
    \/ \E p \in Paths : Resize(p)
    \/ \E p \in Paths : Retag(p)
    \/ \E p \in Paths : Delete(p)
    \/ \E p \in Paths : Create(p)
    \/ \E p \in Paths : StatFlip(p)
    \/ \E dir \in {DirM, DirS} : AddDir(dir)
    \/ \E dir \in {DirM, DirS} : RemoveDir(dir)
    \/ SetVideo
    \/ SetExt
    \/ Chmod(DirS)
    \/ \E mode \in StorageModes : SetStorage(mode)
    \/ Damage

Spec == Init /\ [][Next]_vars

\* ------------------------------------------------- main: the filter logic

\* Collections main has loaded or scanned: the two Tracks of a library with a
\* genre each, a library with the artists Ado and Adoration, and one whose
\* tags hold several values.
PB == DirM \o <<"/", "b", ".", "f", "l", "a", "c">>

IndexGenres ==
    << Track(P1, <<"a", "b">>,
          <<"U", "N", "K", "N", "O", "W", "N">>, <<"U", "N", "K", "N", "O", "W", "N">>,
          <<"P", "o", "p">>, 100, 2000, MediaAudio),
       Track(PB, <<"b">>,
          <<"U", "N", "K", "N", "O", "W", "N">>, <<"U", "N", "K", "N", "O", "W", "N">>,
          <<"R", "o", "c", "k">>, 200, 3000, MediaAudio) >>

IndexArtists ==
    << Track(P1, <<"a">>,
          <<"A", "d", "o">>, <<"U", "N", "K", "N", "O", "W", "N">>,
          <<"R", "o", "c", "k">>, 1, 1, MediaAudio),
       Track(PB, <<"b">>,
          <<"A", "d", "o", "r", "a", "t", "i", "o", "n">>, <<"U", "N", "K", "N", "O", "W", "N">>,
          <<"R", "o", "c", "k">>, 1, 1, MediaAudio),
       Track(P5, <<"c">>,
          <<"A", "d", "o">>, <<"A", "b">>,
          <<"P", "o", "p">>, 1, 1, MediaAudio) >>

IndexTags ==
    << Track(P1, <<"a">>,
          <<"A", "b", ",", " ", "C">>, <<"U", "N", "K", "N", "O", "W", "N">>,
          <<"P", "o", "p", ";", "R", "o", "c", "k">>, 1, 1, MediaAudio),
       Track(PB, <<"b">>,
          <<"A", "b", "b">>, <<"U", "N", "K", "N", "O", "W", "N">>,
          <<" ", "P", "o", "p", " ", ",", " ", "R", "a", "p">>, 1, 1, MediaAudio),
       Track(P5, <<"c">>,
          <<"C">>, <<"U", "N", "K", "N", "O", "W", "N">>,
          <<"R", "o", "c", "k">>, 1, 1, MediaAudio) >>

Indexes == {IndexGenres, IndexArtists, IndexTags}

\* The values the flags are given on the command line (a flag given without
\* a value opens a picker before the filter logic is reached).
GenreArgs ==
    {None, Some(<<"p", "o", "p">>), Some(<<"p", "o">>), Some(<<"r", "o">>), Some(<<"R", "O", "C", "K">>),
     Some(<<"P", "o", "p", ",">>), Some(<<"r", "a", "p", ",", " ", "r", "o", "c", "k">>), Some(<<",">>), Some(<<"o">>), Some(<<"p", ";", "r">>)}
ArtistArgs == {None, Some(<<"a", "d", "o">>), Some(<<"a", "d">>), Some(<<"a">>), Some(<<"A", "d", "o", ",">>)}
AlbumArgs == {None, Some(<<"u", "n">>)}
TitleArgs == {None, Some(<<"A">>), Some(<<"b", ",">>)}

Queries ==
    {[genre |-> g, artist |-> a, album |-> l, title |-> t] :
        g \in GenreArgs, a \in ArtistArgs, l \in AlbumArgs, t \in TitleArgs}
    \ {NoArgs}

QInit ==
    /\ IndexerInit
    /\ index \in Indexes
    /\ args \in Queries
    /\ play_all \in BOOLEAN
    /\ qs = QStart
    /\ mn = MIdle
    /\ configFile = music_dirs
    /\ par = PIdle

\* The first of several matches played as if it were the only one.
Terminal_PlaysFirst(st, filtered, playAll) ==
    IF filtered = <<>>
    THEN [st EXCEPT !.pc = "done", !.filtered = filtered, !.outcome = "nomatch"]
    ELSE [st EXCEPT !.pc = "done", !.filtered = filtered, !.outcome = "single",
                    !.played = <<filtered[1].path>>]

\* What main does with the filtered Tracks: "No match.", the one Track played,
\* or all of them played (--play-all) or handed to run_post_filter_action.
Terminal(st, filtered, playAll) ==
    IF filtered = <<>>
    THEN [st EXCEPT !.pc = "done", !.filtered = filtered, !.outcome = "nomatch"]
    ELSE IF Len(filtered) = 1
    THEN [st EXCEPT !.pc = "done", !.filtered = filtered, !.outcome = "single",
                    !.played = <<filtered[1].path>>]
    ELSE IF playAll
    THEN [st EXCEPT !.pc = "done", !.filtered = filtered, !.outcome = "play_all",
                    !.played = [i \in 1..Len(filtered) |-> filtered[i].path]]
    ELSE [st EXCEPT !.pc = "done", !.filtered = filtered, !.outcome = "narrow",
                    !.handed = filtered]

\* The clarification given up with the partial matches kept as the result.
Aborted_KeepsPartials(st) ==
    [st EXCEPT !.pc = "done", !.outcome = "narrow", !.filtered = st.partials,
               !.handed = st.partials]

\* run_skim_simple returned None: main returns, nothing is played.
Aborted(st) == [st EXCEPT !.pc = "done", !.outcome = "aborted"]

\* The filter logic up to its end or to the clarification: stage 1 (exact,
\* skipped in a multi-value search), stage 2 (partial) when stage 1 found
\* nothing, and the question which value of the active tag was meant.
Filter ==
    /\ qs.pc = "start"
    /\ index # <<>>
    /\ args # NoArgs
    /\ LET multi == is_multi_value_search(args)
           exact == IF ~multi THEN apply_cli_filters(index, args, TRUE) ELSE <<>>
           partials == apply_cli_filters(index, args, FALSE)
           key == active_key(args)
           options == unique_options(partials, key)
           st1 == [qs EXCEPT !.multi = multi, !.pass1 = ~multi, !.exact = exact]
           st2 == [st1 EXCEPT !.partials = partials, !.key = key,
                              !.options = options]
       IN  qs' = IF exact # <<>> THEN Terminal(st1, exact, play_all)
                 ELSE IF partials = <<>>
                 THEN Terminal([st1 EXCEPT !.partials = partials], <<>>, play_all)
                 ELSE IF asks(options, key, multi) THEN [st2 EXCEPT !.pc = "asking"]
                 ELSE Terminal(st2, partials, play_all)
    /\ UNCHANGED <<ivars, index, args, play_all, mvars, pvars>>

\* run_skim_simple returned Some(clarified), one of the options shown: stage 1
\* again, with the clarified value as the active flag.
Clarified(clarified) ==
    /\ qs.pc = "asking"
    /\ clarified \in qs.options
    /\ qs' = Terminal([qs EXCEPT !.clarified = Some(clarified)],
                      apply_cli_filters(index, temp_args(args, qs.key, clarified),
                                        TRUE),
                      play_all)
    /\ UNCHANGED <<ivars, index, args, play_all, mvars, pvars>>

\* run_skim_simple returned None: the user left the selection, chose nothing,
\* or skim failed.
SkimAborted ==
    /\ qs.pc = "asking"
    /\ qs' = Aborted(qs)
    /\ UNCHANGED <<ivars, index, args, play_all, mvars, pvars>>

\* The values a Track can carry in a tag.
TagValues ==
    UNION {{t.genre, t.artist, t.album} : t \in UNION {Range(ix) : ix \in Indexes}}

QNext ==
    \/ Filter
    \/ \E clarified \in TagValues : Clarified(clarified)
    \/ SkimAborted

QuerySpec == QInit /\ [][QNext]_vars

\* ------------------------------------------ scan: the par_bridge pipeline

\* The most threads the pool is given; serial mode restricts it to one.
NumWorkers == 2

\* A worker thread with no entry in hand.
IdleSlot == [st |-> "idle", i |-> 0]

\* The music files at the start of a scan: as they were when the index was
\* last written, one of them written again since, or one of them with
\* metadata that cannot be read.
ParFiles ==
    LET base == [p \in Paths |-> InitFile(p)]
    IN  {base, [base EXCEPT ![P1].mtime = @ + 1], [base EXCEPT ![P3].statOk = FALSE]}

\* The index file before the scan: none, or the one a scan of /m wrote.
ParCaches ==
    {NoFile,
     FileOf(SaveData(Emitted(ScanResults(<<DirM>>, {}, TRUE,
                                         [p \in Paths |-> InitFile(p)], <<>>))))}

ParInit ==
    /\ ext_arg = None
    /\ fs \in ParFiles
    /\ music_dirs \in {<<DirM>>, <<DirM, DirS>>}
    /\ video_ok \in BOOLEAN
    /\ storage = "ok"
    /\ unreadable = {}
    /\ cacheFile \in ParCaches
    /\ ret = NoRet
    /\ fresh = FALSE
    /\ changesLeft = 0
    /\ index = <<>>
    /\ args = NoArgs
    /\ play_all = FALSE
    /\ qs = QStart
    /\ mn = MIdle
    /\ configFile = music_dirs
    /\ par = PIdle

\* scan up to the pipeline: the extension sets, the old cache, the progress
\* bar at 0, and the walk the workers draw their entries from; threads is 1
\* in serial mode.
ParStart(force, threads) ==
    /\ par.pc = "none"
    /\ music_dirs # <<>>
    /\ \E lo \in PriorLoad(force, cacheFile, storage) :
         /\ cacheFile' = lo.file
         /\ par' = [pc |-> "scan", threads |-> threads,
                    entries |-> Entries(music_dirs, unreadable), next |-> 1,
                    slot |-> [w \in 1..threads |-> IdleSlot], pos |-> 0,
                    out |-> <<>>, old |-> OldTracks(lo)]
    /\ UNCHANGED <<fs, music_dirs, video_ok, storage, unreadable, ret, fresh,
                   changesLeft, ext_arg, qvars, mvars>>

\* par_bridge: an idle worker takes the next entry of the walk; the iterator
\* is behind a lock, so each entry goes to one worker.
Take(w) ==
    /\ par.pc = "scan"
    /\ w \in DOMAIN par.slot
    /\ par.slot[w].st = "idle"
    /\ par.next <= Len(par.entries)
    /\ par' = [par EXCEPT !.slot[w] = [st |-> "taken", i |-> par.next],
                          !.next = @ + 1]
    /\ UNCHANGED <<ivars, qvars, mvars>>

\* What the closure makes of the entry a worker holds.
Outcome(w) ==
    LET path == par.entries[par.slot[w].i]
    IN  ProcessEntry(path, fs[path], OldCache(par.old), video_ok)

\* The closure up to pb.inc(1): an entry that is no file or has no class
\* returns None before it, any other adds one to the counter in one atomic
\* step.
Inc(w) ==
    /\ par.pc = "scan"
    /\ w \in DOMAIN par.slot
    /\ par.slot[w].st = "taken"
    /\ par' = IF Outcome(w).counted
              THEN [par EXCEPT !.pos = @ + 1, !.slot[w].st = "counted"]
              ELSE [par EXCEPT !.slot[w] = IdleSlot]
    /\ UNCHANGED <<ivars, qvars, mvars>>

\* The collector with one Track only: the last one put into it.
Collect_Overwrite(out, track) == <<track>>

\* collect(): the Track a worker returns is added to the collection.
Collect(out, track) == Append(out, track)

\* The closure after pb.inc(1): None when the metadata cannot be read, else
\* the cached or the newly built Track, which goes into the collection.
Emit(w) ==
    /\ par.pc = "scan"
    /\ w \in DOMAIN par.slot
    /\ par.slot[w].st = "counted"
    /\ par' = [par EXCEPT !.out = IF Outcome(w).emit
                                  THEN Collect(@, Outcome(w).track) ELSE @,
                          !.slot[w] = IdleSlot]
    /\ UNCHANGED <<ivars, qvars, mvars>>

\* The walk is used up and every worker is done: collect() returns.
Finish ==
    /\ par.pc = "scan"
    /\ par.next > Len(par.entries)
    /\ \A w \in 1..par.threads : par.slot[w].st = "idle"
    /\ par' = [par EXCEPT !.pc = "done"]
    /\ UNCHANGED <<ivars, qvars, mvars>>

ParNext ==
    \/ \E force \in BOOLEAN, threads \in 1..NumWorkers : ParStart(force, threads)
    \/ \E w \in 1..NumWorkers : Take(w)
    \/ \E w \in 1..NumWorkers : Inc(w)
    \/ \E w \in 1..NumWorkers : Emit(w)
    \/ Finish

ParSpec == ParInit /\ [][ParNext]_vars

\* ---------------------------------- main: startup and the directory manager

\* The index file main finds: none, the one written by a scan of /m, or that
\* one damaged.
MainCaches ==
    LET good == FileOf(SaveData(Emitted(ScanResults(<<DirM>>, {}, TRUE,
                                   [p \in Paths |-> InitFile(p)], <<>>))))
    IN  {NoFile, FileOf(<<>>), good} \cup Damaged(good)

MainInit ==
    /\ ext_arg = None
    /\ fs \in ParFiles
    /\ music_dirs = <<DirM>>
    /\ video_ok \in BOOLEAN
    /\ storage \in StorageModes
    /\ unreadable = {}
    /\ cacheFile \in MainCaches
    /\ ret = NoRet
    /\ fresh = FALSE
    /\ changesLeft = 0
    /\ index = <<>>
    /\ args = NoArgs
    /\ play_all = FALSE
    /\ qs = QStart
    /\ mn = MIdle
    /\ configFile = music_dirs
    /\ par = PIdle

\* The scan main makes of the loaded index: a full one without a look at what
\* was loaded, none at all when the index was repaired.
Branch_IgnoreRepair(reindex, refresh, was_repaired, loaded) ==
    IF reindex \/ refresh \/ loaded = <<>> THEN "full" ELSE "none"

\* The scan main makes after load_index: a full one for --reindex, an
\* incremental one for --refresh-index or a repaired index, a full one when
\* the index is empty, else none.
Branch(reindex, refresh, was_repaired, loaded) ==
    IF reindex THEN "full"
    ELSE IF refresh \/ was_repaired THEN "incr"
    ELSE IF loaded = <<>> THEN "full"
    ELSE "none"

\* main without a target and without directory flags: load_index, then the
\* choice of the scan; an Err of load_index ends the run.
Startup(reindex, refresh) ==
    /\ mn.pc = "none"
    /\ \E lo \in LoadOutcomes(cacheFile, storage) :
         /\ cacheFile' = lo.file
         /\ mn' = IF ~lo.ok THEN [mn EXCEPT !.pc = "exit", !.flow = "startup"]
                  ELSE LET b == Branch(reindex, refresh, lo.needs_repair, lo.tracks)
                       IN  [mn EXCEPT !.pc = IF b = "none" THEN "ready" ELSE "scan",
                                      !.flow = "startup", !.reindex = reindex,
                                      !.loaded = lo.tracks,
                                      !.was_repaired = lo.needs_repair,
                                      !.force = (b = "full"),
                                      !.tracks = lo.tracks]
    /\ UNCHANGED <<fs, music_dirs, video_ok, storage, unreadable, ret, fresh,
                   changesLeft, ext_arg, qvars, configFile, pvars>>

\* indexer::scan(&cfg, force), called by main.
ScanStep ==
    /\ mn.pc = "scan"
    /\ IF music_dirs = <<>>
       THEN /\ cacheFile' = cacheFile
            /\ mn' = [mn EXCEPT !.pc = "save", !.out = <<>>,
                                !.scanned = IF mn.force THEN "full" ELSE "incr"]
       ELSE \E lo \in PriorLoad(mn.force, cacheFile, storage) :
              /\ cacheFile' = lo.file
              /\ mn' = [mn EXCEPT !.pc = "save",
                                  !.out = Emitted(ScanResults(music_dirs, unreadable,
                                              video_ok, fs, OldTracks(lo))),
                                  !.scanned = IF mn.force THEN "full" ELSE "incr"]
    /\ UNCHANGED <<fs, music_dirs, video_ok, storage, unreadable, ret, fresh,
                   changesLeft, ext_arg, qvars, configFile, pvars>>

\* indexer::save of the scan's output; an Err ends the run. After it the
\* command-line flows return, startup goes on with the scan's output, and the
\* settings menu is shown again.
SaveStep ==
    /\ mn.pc = "save"
    /\ \E o \in SaveOutcomes(mn.out, cacheFile, storage) :
         /\ cacheFile' = o.file
         /\ mn' = IF ~o.ok THEN [mn EXCEPT !.pc = "exit"]
                  ELSE [mn EXCEPT !.pc = CASE mn.flow = "startup" -> "ready"
                                           [] mn.flow = "settings" -> "serving"
                                           [] OTHER -> "exit",
                                  !.saved = TRUE, !.synced = mn.changed,
                                  !.tracks = IF mn.flow = "dirs" THEN @ ELSE mn.out]
    /\ UNCHANGED <<fs, music_dirs, video_ok, storage, unreadable, ret, fresh,
                   changesLeft, ext_arg, qvars, configFile, pvars>>

\* tracks.is_empty(): "No music found." and the run ends; else main goes on
\* to the picker shortcuts, the query and the menus.
Ready ==
    /\ mn.pc = "ready"
    /\ mn' = [mn EXCEPT !.pc = IF mn.tracks = <<>> THEN "exit" ELSE "serving"]
    /\ UNCHANGED <<ivars, qvars, configFile, pvars>>

\* The directory lists add_directory and remove_directory make of dirs when
\* they return true: a directory not yet in it added at the end, or one in it
\* taken out.
ManagedDirs(dirs) ==
    {Append(dirs, d) : d \in {DirM, DirS} \ Range(dirs)}
    \cup {SelectSeq(dirs, LAMBDA x : x # d) : d \in Range(dirs)}

\* --add-dir, --remove-dir and --manage-dirs with a change made:
\* config::save (an Err ends the run), then the sync of the index.
CommandLineDirs(dirs, written) ==
    /\ mn.pc = "none"
    /\ dirs \in ManagedDirs(music_dirs)
    /\ music_dirs' = dirs
    /\ configFile' = IF written THEN dirs ELSE configFile
    /\ mn' = [mn EXCEPT !.pc = IF written THEN "scan" ELSE "exit",
                        !.flow = "dirs", !.changed = TRUE, !.force = FALSE]
    /\ UNCHANGED <<fs, video_ok, storage, unreadable, cacheFile, ret, fresh,
                   changesLeft, ext_arg, qvars, pvars>>

\* Settings > Manage Directories with a change made: the sync of the index.
SettingsManageDirs(dirs) ==
    /\ mn.pc = "serving"
    /\ dirs \in ManagedDirs(music_dirs)
    /\ music_dirs' = dirs
    /\ mn' = [mn EXCEPT !.pc = "scan", !.flow = "settings", !.changed = TRUE,
                        !.synced = FALSE, !.force = FALSE]
    /\ UNCHANGED <<fs, video_ok, storage, unreadable, cacheFile, ret, fresh,
                   changesLeft, ext_arg, qvars, configFile, pvars>>

DirLists == {<<>>, <<DirM>>, <<DirS>>, <<DirM, DirS>>, <<DirS, DirM>>}

MainNext ==
    \/ \E reindex, refresh \in BOOLEAN : Startup(reindex, refresh)
    \/ ScanStep
    \/ SaveStep
    \/ Ready
    \/ \E dirs \in DirLists, written \in BOOLEAN : CommandLineDirs(dirs, written)
    \/ \E dirs \in DirLists : SettingsManageDirs(dirs)

MainSpec == MainInit /\ [][MainNext]_vars

\* ------------------------------------------------------------------ claims

\* The files a scan takes to the cache lookup: walked, classified, metadata read.
Looked ==
    {p \in Range(Entries(music_dirs, unreadable)) :
        /\ fs[p].present /\ fs[p].statOk
        /\ Classify(to_lowercase(Extension(p)), video_ok) # MediaNone}

\* The Tracks of the last scan's output for a path.
TracksOf(p) == {t \in Range(ret.tracks) : t.path = p}

\* The entries of the old snapshot for a path that carry the file's current
\* mtime and size.
SameStamp(p) ==
    {t \in Range(ret.old) :
        t.path = p /\ t.mtime = fs[p].mtime /\ t.size = fs[p].size}

\* C1: in scan(force = false), a classified file is emitted as the old
\* snapshot's Track, unchanged and without a probe, exactly when the old
\* snapshot has an entry of its path with the file's current mtime and size;
\* otherwise a Track built now, with the path and the file's current mtime and
\* size, takes the place of the cached one (and an audio or video file is probed).
C1_CacheLookup ==
    (ret.op = "scan" /\ ~ret.force) =>
        \A p \in Looked :
            /\ TracksOf(p) # {}
            /\ IF SameStamp(p) # {}
               THEN TracksOf(p) = SameStamp(p) /\ p \notin Range(ret.probed)
               ELSE /\ \A t \in TracksOf(p) :
                         /\ t.mtime = fs[p].mtime /\ t.size = fs[p].size
                         /\ t \notin Range(ret.old)
                    /\ Classify(to_lowercase(Extension(p)), video_ok) # MediaPlaylist
                         => p \in Range(ret.probed)

\* An incremental scan that reuses one file's Track and replaces another's
\* stale one.
C1_Witness ==
    /\ ret.op = "scan" /\ ~ret.force
    /\ \E p, q \in Looked :
         /\ SameStamp(p) # {}
         /\ SameStamp(q) = {}
         /\ \E t \in Range(ret.old) : t.path = q

\* The Tracks the cache file holds: its lines that parse, in file order.
Persisted(file) ==
    LET good == SelectSeq(SplitLines(file.data),
                          LAMBDA l : IsValidUtf8(l) /\ from_str(l).ok)
    IN  [i \in 1..Len(good) |-> from_str(good[i]).val]

\* C2: with the index a scan saved and nothing changed since, scan(force =
\* false) returns the persisted Tracks, as a set, and probes no file.
C2_NoOpScan ==
    [][(fresh /\ ret'.op = "scan" /\ ~ret'.force) =>
          /\ Range(ret'.tracks) = Range(Persisted(cacheFile))
          /\ ret'.probed = <<>>]_vars

\* An incremental scan over an unchanged index of at least two Tracks, one of
\* them of an audio file.
C2_Witness ==
    /\ fresh /\ ret.op = "scan" /\ ~ret.force
    /\ Cardinality(Range(ret.tracks)) >= 2
    /\ \E t \in Range(ret.tracks) : t.media_type = MediaAudio

\* The audio and video files among those taken to the cache lookup, in walk order.
ProbeDue ==
    SelectSeq(Entries(music_dirs, unreadable),
              LAMBDA p : /\ p \in Looked
                         /\ Classify(to_lowercase(Extension(p)), video_ok)
                              \in {MediaAudio, MediaVideo})

\* C3: when force is true, or the prior snapshot could not be loaded, the old
\* snapshot is empty: no Track of the output is reused from the cache file and
\* every audio or video file found is probed.
C3_FullReprobe ==
    (ret.op = "scan" /\ music_dirs # <<>> /\ (ret.force \/ ~ret.loaded)) =>
        /\ ret.old = <<>>
        /\ ret.hits = <<>>
        /\ ret.probed = ProbeDue
        /\ \A t \in Range(ret.tracks) :
             t.mtime = fs[t.path].mtime /\ t.size = fs[t.path].size

\* A forced scan over a cache file that holds a Track of a probed file with
\* the file's current mtime and size.
C3_Witness ==
    /\ ret.op = "scan" /\ ret.force
    /\ \E t \in Range(Persisted(cacheFile)) :
         /\ t.path \in Range(ret.probed)
         /\ t.mtime = fs[t.path].mtime /\ t.size = fs[t.path].size

\* A line of the cache file that is read, is not blank and is no Track.
Malformed(l) == IsValidUtf8(l) /\ ~TrimIsEmpty(l) /\ ~from_str(l).ok

HasMalformedLine(file) == \E l \in Range(SplitLines(file.data)) : Malformed(l)

\* C4 as stated: scan, whatever force and the cache file are, leaves the cache
\* file as it found it.
C4_NeverWrites == [][ret'.op = "scan" => cacheFile' = cacheFile]_vars

\* C4, amended: scan(force = true) never writes the cache file, and scan(force
\* = false) leaves it as it found it unless one of its lines fails to parse
\* (load_index then rewrites it).
C4_WritesOnlyInRepair ==
    [][(ret'.op = "scan" /\ (ret'.force \/ ~HasMalformedLine(cacheFile)))
          => cacheFile' = cacheFile]_vars

\* An incremental scan that loaded Tracks from a cache file holding a blank
\* line, and left the line there.
C4_Witness ==
    /\ ret.op = "scan" /\ ~ret.force /\ ret.loaded /\ ret.old # <<>>
    /\ \E l \in Range(SplitLines(cacheFile.data)) : TrimIsEmpty(l)

\* C5 as stated: save is atomic; whatever its outcome, the cache file holds
\* its previous content or the whole new collection, one record a line.
C5_Atomic ==
    [][ret'.op = "save" =>
          \/ cacheFile' = cacheFile
          \/ cacheFile' = FileOf(SaveData(ret'.tracks))]_vars

\* C6: after a successful save, whatever the cache file held before, load
\* returns the saved Tracks, field for field, with needs_repair = false.
C6_SaveThenLoad ==
    [][(ret.op = "save" /\ ret.ok /\ ret'.op = "load") =>
          /\ ret'.ok
          /\ ret'.tracks = ret.tracks
          /\ ~ret'.needs_repair]_vars

\* A load, right after a successful save, of Tracks whose text holds a quote,
\* a backslash and a control character.
C6_Witness ==
    /\ ret.op = "load" /\ ret.prev = "save" /\ ret.ok
    /\ Len(ret.tracks) >= 2
    /\ \E t \in Range(ret.tracks) :
         \E c \in Range(t.title) \cup Range(t.artist) \cup Range(t.album)
                  \cup Range(t.genre) : c \in {"\n", "\r", "\t"}
    /\ \E t \in Range(ret.tracks) :
         \E c \in Range(t.title) \cup Range(t.album) \cup Range(t.genre) :
            c \in {"\"", "\\"}

\* The cache file is there and load_index gets to read all of it.
ReadsAll(file, mode) ==
    /\ file.exists
    /\ mode \notin {"unreadable", "noaccess"}
    /\ \A l \in Range(SplitLines(file.data)) : IsValidUtf8(l)

\* C7: a load that returns, returns the Tracks of the file's non-blank lines
\* that parse, in file order (a blank line is skipped, a line that fails to
\* parse is dropped and no other line with it), and needs_repair is true
\* exactly when a non-blank line failed to parse.
C7_LoadResult ==
    [][(ret'.op = "load" /\ ret'.ok /\ storage # "noaccess") =>
          /\ ret'.tracks = Persisted(cacheFile)
          /\ ret'.needs_repair = HasMalformedLine(cacheFile)]_vars

\* A load that dropped a line and returned the Tracks of the others.
C7_Witness ==
    /\ ret.op = "load" /\ ret.ok /\ ret.needs_repair
    /\ ret.tracks # <<>>

\* C8: in a data directory that can be read and written, the load of a cache
\* file with v valid lines and at least one malformed line returns the v
\* Tracks with needs_repair = true and rewrites the file with those v records;
\* the load after it returns the same v Tracks with needs_repair = false.
C8_RepairIdempotent ==
    [][/\ (ret'.op = "load" /\ storage = "ok" /\ ReadsAll(cacheFile, storage)
           /\ HasMalformedLine(cacheFile)) =>
             /\ ret'.ok /\ ret'.needs_repair
             /\ ret'.tracks = Persisted(cacheFile)
             /\ cacheFile' = FileOf(SaveData(Persisted(cacheFile)))
       /\ (ret.op = "load" /\ ret.ok /\ ret.needs_repair /\ ret'.op = "load") =>
             /\ ret'.ok /\ ~ret'.needs_repair
             /\ ret'.tracks = ret.tracks]_vars

\* The second load after a repair that kept at least one Track.
C8_Witness ==
    /\ ret.op = "load" /\ ret.prev = "repair" /\ ret.ok
    /\ ~ret.needs_repair /\ ret.tracks # <<>>

\* C9 as stated: the load of a cache file that holds malformed lines returns
\* success with the surviving Tracks, and no failure because of them or of the
\* repair they start.
C9_NeverFatal ==
    [][(ret'.op = "load" /\ ReadsAll(cacheFile, storage)
        /\ HasMalformedLine(cacheFile)) =>
          /\ ret'.ok
          /\ ret'.tracks = Persisted(cacheFile)]_vars

\* The calls on the data directory that fail in a mode.
CreateFails(mode) == mode \in {"readonly", "unreadable", "noaccess"}
WriteFails(mode, tracks) == mode = "full" /\ tracks # <<>>

\* load_index cannot open the file it found, or cannot read one of its lines.
ReadFails(file, mode) ==
    /\ file.exists /\ mode # "noaccess"
    /\ \/ mode = "unreadable"
       \/ \E l \in Range(SplitLines(file.data)) : ~IsValidUtf8(l)

\* load_index reads the file, has to repair it, and the save of the repair fails.
RepairFails(file, mode) ==
    /\ ReadsAll(file, mode) /\ HasMalformedLine(file)
    /\ CreateFails(mode) \/ WriteFails(mode, Persisted(file))

IsStrictPrefix(a, b) == Len(a) < Len(b) /\ a = SubSeq(b, 1, Len(a))

\* What C10 says of save and of load_index, which is so: a failure to create,
\* write, open or read the cache file is returned by the call, which stops there.
SaveLoadReturnFailures ==
    /\ (ret'.op = "save" /\ CreateFails(storage)) =>
          ~ret'.ok /\ cacheFile' = cacheFile
    /\ (ret'.op = "save" /\ WriteFails(storage, ret'.tracks)) =>
          /\ ~ret'.ok
          /\ IsStrictPrefix(cacheFile'.data, SaveData(ret'.tracks))
    /\ (ret'.op = "load" /\ ReadFails(cacheFile, storage)) =>
          ~ret'.ok /\ ret'.tracks = <<>> /\ cacheFile' = cacheFile
    /\ (ret'.op = "load" /\ RepairFails(cacheFile, storage)) =>
          ~ret'.ok /\ ret'.tracks = <<>>

\* The load of the prior snapshot in a scan fails.
PriorLoadFails ==
    /\ music_dirs # <<>>
    /\ ReadFails(cacheFile, storage) \/ RepairFails(cacheFile, storage)

\* C10 as stated: every failure to open, create, read or write the cache file
\* is returned as a failure by the call it happens in (save, load, and scan
\* when it loads the prior snapshot), which stops there.
C10_AllReturned ==
    [][/\ SaveLoadReturnFailures
       /\ (ret'.op = "scan" /\ ~ret'.force /\ PriorLoadFails) => ~ret'.ok]_vars

\* C10, amended: save and load return every such failure and stop there; scan
\* returns none: when the load of the prior snapshot fails it goes on with an
\* empty old snapshot, probes every file again and returns success.
C10_ScanGoesOn ==
    [][/\ SaveLoadReturnFailures
       /\ (ret'.op = "scan" /\ ~ret'.force /\ PriorLoadFails) =>
             /\ ret'.ok /\ ~ret'.loaded
             /\ ret'.old = <<>> /\ ret'.hits = <<>>
             /\ ret'.probed = ProbeDue]_vars

\* An incremental scan that could not load the cache file that is there, and
\* returned Tracks all the same.
C10_Witness ==
    /\ ret.op = "scan" /\ ~ret.force /\ ~ret.loaded
    /\ music_dirs # <<>> /\ cacheFile.exists
    /\ ret.tracks # <<>> /\ ret.probed # <<>>

\* The files of a scan with an error of their own: under a directory that
\* cannot be listed, metadata that cannot be read, or a probe that fails.
Failing ==
    {p \in Paths :
        /\ fs[p].present
        /\ \/ \E d \in unreadable : IsUnder(p, d)
           \/ ~fs[p].statOk
           \/ /\ fs[p].content = "corrupt"
              /\ Classify(to_lowercase(Extension(p)), video_ok)
                   \in {MediaAudio, MediaVideo}}

\* The files without the failing ones, every directory readable.
WithoutFailing ==
    [p \in Paths |-> IF p \in Failing THEN [fs[p] EXCEPT !.present = FALSE]
                     ELSE fs[p]]

OfOthers(tracks) == SelectSeq(tracks, LAMBDA t : t.path \notin Failing)

\* C11: a scan returns success whatever files fail (a directory the walk
\* cannot list, metadata that cannot be read, a probe that fails), and the
\* Tracks it emits for the other files are those of a scan of the same files
\* without the failing ones and without the unreadable directory.
C11_PerFileErrors ==
    (ret.op = "scan" /\ music_dirs # <<>>) =>
        /\ ret.ok
        /\ OfOthers(ret.tracks)
             = Emitted(ScanResults(music_dirs, {}, video_ok, WithoutFailing, ret.old))

\* A scan with a file whose probe failed and a file that the walk did not get
\* to or whose metadata could not be read, which emitted Tracks for two others.
C11_Witness ==
    /\ ret.op = "scan"
    /\ \E p \in Failing : p \in Range(ret.probed)
    /\ \E p \in Failing : ~fs[p].statOk \/ \E d \in unreadable : IsUnder(p, d)
    /\ Len(OfOthers(ret.tracks)) >= 2

\* C12 as stated: whatever the configured directories are, no two Tracks of
\* the collection a scan returns have the same path.
C12_PathUnique ==
    ret.op = "scan" =>
        \A i, j \in 1..Len(ret.tracks) :
            ret.tracks[i].path = ret.tracks[j].path => i = j

\* -------------------------------------------------- claims on the filters

Tags == {"genre", "artist", "album"}

OnlyGenre(v) == [NoArgs EXCEPT !.genre = Some(v)]
OnlyArtist(v) == [NoArgs EXCEPT !.artist = Some(v)]

\* The terms a flag's value carries: its pieces between commas, lower-cased
\* and trimmed, the empty ones left out.
TermsOf(v) ==
    {Trim(x) : x \in Range(Split(to_lowercase(v), {","}))} \ {<<>>}

\* The sub-values of a field's text: its pieces between ';' and ',',
\* lower-cased and trimmed.
SubValues(field) ==
    {Trim(x) : x \in Range(Split(to_lowercase(field), {";", ","}))}

TitleContains(t, a) ==
    a.title.some => Contains(to_lowercase(t.title), to_lowercase(a.title.val))

\* The filters of a hold for t, exactly: each tag's filter has a term equal to
\* a sub-value of the tag.
HoldsExact(t, a) ==
    \A f \in Tags : a[f].some => TermsOf(a[f].val) \cap SubValues(t[f]) # {}

\* The filters of a hold for t, partially: each tag's filter has a term that
\* is a substring of the tag's whole text.
HoldsPartial(t, a) ==
    \A f \in Tags :
        a[f].some => \E term \in TermsOf(a[f].val) : Contains(to_lowercase(t[f]), term)

\* The clarification was asked for.
Asked == qs.pc = "asking" \/ qs.clarified.some \/ qs.outcome = "aborted"

\* C13 as stated: stage 1 (exact) is run exactly when none of the genre,
\* artist and album filters carries more than one term.
C13_ExactIffSingleTerms ==
    qs.pc # "start" =>
        (qs.pass1 <=> \A f \in Tags :
                         args[f].some => Len(prepare_terms(args[f]).val) <= 1)

\* C14: apply_cli_filters with exact = true returns the Tracks for which each
\* genre, artist or album filter given has a term equal, whatever the case, to
\* a trimmed sub-value of the tag (and whose title holds the title filter):
\* in stage 1, and in the run after a clarification; a Track of genre
\* "Pop;Rock" is among them for the term "ROCK" and is not for "ro".
C14_ExactMatch ==
    /\ qs.pass1 =>
         qs.exact = SelectSeq(index, LAMBDA t : HoldsExact(t, args)
                                                /\ TitleContains(t, args))
    /\ (qs.pc = "done" /\ qs.clarified.some) =>
         LET a == temp_args(args, qs.key, qs.clarified.val)
         IN  qs.filtered = SelectSeq(index, LAMBDA t : HoldsExact(t, a)
                                                       /\ TitleContains(t, a))
    /\ (qs.pc # "start" /\ index = IndexTags /\ args = OnlyGenre(<<"R", "O", "C", "K">>))
         => IndexTags[1] \in Range(qs.exact)
    /\ (qs.pc # "start" /\ index = IndexTags /\ args = OnlyGenre(<<"r", "o">>))
         => IndexTags[1] \notin Range(qs.exact)

\* Stage 1 found the Track of genre "Pop;Rock" by one of its sub-values, and
\* left out a Track of genre "Rock" that does not hold the title filter.
C14_Witness ==
    /\ qs.pc = "done" /\ qs.pass1 /\ index = IndexTags
    /\ args.genre = Some(<<"R", "O", "C", "K">>) /\ args.title.some
    /\ qs.exact = <<IndexTags[1]>>

\* C15: apply_cli_filters with exact = false returns the Tracks for which
\* each genre, artist or album filter given has a term that is a substring,
\* whatever the case, of the tag's whole text; the title filter is that
\* substring test in both modes.
C15_PartialMatch ==
    /\ (qs.pc # "start" /\ qs.exact = <<>>) =>
         qs.partials = SelectSeq(index, LAMBDA t : HoldsPartial(t, args)
                                                   /\ TitleContains(t, args))
    /\ qs.pass1 =>
         \A t \in Range(index) :
            t \in Range(qs.exact) <=> HoldsExact(t, args) /\ TitleContains(t, args)

\* Stage 2 found a Track by a term that reaches over two sub-values of its
\* genre.
C15_Witness ==
    /\ qs.pc = "done" /\ args = OnlyGenre(<<"p", ";", "r">>)
    /\ qs.exact = <<>> /\ qs.partials # <<>>

\* Stage 1 found a Track whose title is longer than the title filter.
TitleIsPartialInStageOne ==
    /\ qs.pc = "done" /\ args.title = Some(<<"A">>) /\ qs.exact # <<>>
    /\ \E t \in Range(qs.exact) : to_lowercase(t.title) # <<"a">>

\* C16 as stated: the clarification is asked for exactly when stage 1 was run
\* and found nothing, exactly one of genre, artist and album is filtered and
\* the partial matches hold more than one value of it; in every other case
\* with partial matches, they are the result.
C16_AsksIff ==
    qs.pc # "start" =>
        /\ Asked <=>
             /\ qs.pass1 /\ qs.exact = <<>> /\ ~qs.multi
             /\ \E f \in Tags :
                  /\ \A g \in Tags : args[g].some <=> g = f
                  /\ Cardinality({qs.partials[i][f] : i \in 1..Len(qs.partials)}) > 1
        /\ (~Asked /\ qs.exact = <<>> /\ qs.partials # <<>>) =>
             qs.filtered = qs.partials

\* C17 as stated: after the clarification the result is the exact match set
\* of the query with the chosen value, as one term, as the active tag's filter.
C17_ClarifiedAsOneValue ==
    (qs.pc = "done" /\ qs.clarified.some) =>
        qs.filtered =
            SelectSeq(index, LAMBDA t :
                /\ to_lowercase(Trim(qs.clarified.val)) \in SubValues(t[qs.key])
                /\ \A f \in Tags \ {qs.key} :
                      args[f].some => TermsOf(args[f].val) \cap SubValues(t[f]) # {}
                /\ TitleContains(t, args))

\* The artists of the Tracks of a collection.
ArtistsOf(tracks) == {tracks[i].artist : i \in 1..Len(tracks)}

\* C18 as stated: over Tracks of the artists Ado and Adoration, artist = "ado"
\* has no exact match, has partial matches of both artists and is clarified.
C18_AdoIsAmbiguous ==
    (index = IndexArtists /\ args = OnlyArtist(<<"a", "d", "o">>) /\ qs.pc # "start") =>
        /\ qs.exact = <<>>
        /\ ArtistsOf(qs.partials) = {<<"A", "d", "o">>, <<"A", "d", "o", "r", "a", "t", "i", "o", "n">>}
        /\ Asked

\* C18, amended: over those Tracks, artist = "ad" has no exact match, has
\* partial matches of both artists and is clarified, and the choice of "Ado"
\* gives the Tracks of Ado and no other; artist = "ado" is an exact match of
\* "Ado" (the case does not count) and gives them without a clarification.
C18_AdIsAmbiguous ==
    /\ (index = IndexArtists /\ args = OnlyArtist(<<"a", "d">>) /\ qs.pc # "start") =>
          /\ qs.exact = <<>>
          /\ ArtistsOf(qs.partials) = {<<"A", "d", "o">>, <<"A", "d", "o", "r", "a", "t", "i", "o", "n">>}
          /\ Asked
          /\ qs.clarified = Some(<<"A", "d", "o">>) =>
                qs.filtered = SelectSeq(index, LAMBDA t : t.artist = <<"A", "d", "o">>)
    /\ (index = IndexArtists /\ args = OnlyArtist(<<"a", "d", "o">>) /\ qs.pc # "start") =>
          /\ ~Asked
          /\ qs.filtered = SelectSeq(index, LAMBDA t : t.artist = <<"A", "d", "o">>)

\* artist = "ad" over those Tracks, clarified as "Ado".
C18_Witness ==
    /\ index = IndexArtists /\ args = OnlyArtist(<<"a", "d">>)
    /\ qs.pc = "done" /\ qs.clarified = Some(<<"A", "d", "o">>)
    /\ qs.filtered # <<>>

\* C19: when the user leaves the clarification, the query ends as aborted:
\* no Track is played or handed on, the partial matches are not the result.
C19_AbortedIsFinal ==
    [][SkimAborted =>
         /\ qs'.pc = "done" /\ qs'.outcome = "aborted"
         /\ qs'.filtered = <<>> /\ qs'.played = <<>> /\ qs'.handed = <<>>]_vars

\* A clarification left with partial matches at hand.
C19_Witness == qs.outcome = "aborted" /\ Len(qs.partials) >= 2

\* C20: the number of filtered Tracks decides how a query that was not
\* aborted ends: none, "no match" and nothing played; one, that Track played;
\* more, all of them played (--play-all) or handed on; over the Tracks a.mp3 of
\* genre Pop and b.flac of genre Rock, genre = "pop" and genre = "po" both
\* end with a.mp3 played as the single match.
C20_SizeDecides ==
    /\ (qs.pc = "done" /\ qs.outcome # "aborted") =>
          LET n == Len(qs.filtered)
              paths == [i \in 1..n |-> qs.filtered[i].path]
          IN  /\ n = 0 => qs.outcome = "nomatch" /\ qs.played = <<>>
                                               /\ qs.handed = <<>>
              /\ n = 1 => qs.outcome = "single" /\ qs.played = paths
                                              /\ qs.handed = <<>>
              /\ (n > 1 /\ play_all) =>
                    qs.outcome = "play_all" /\ qs.played = paths /\ qs.handed = <<>>
              /\ (n > 1 /\ ~play_all) =>
                    qs.outcome = "narrow" /\ qs.played = <<>>
                                          /\ qs.handed = qs.filtered
    /\ (qs.pc # "start" /\ index = IndexGenres
        /\ args \in {OnlyGenre(<<"p", "o", "p">>), OnlyGenre(<<"p", "o">>)}) =>
          /\ qs.outcome = "single"
          /\ qs.played = <<P1>>

\* genre = "po" over those two Tracks: no exact match, a.mp3 played.
C20_Witness ==
    /\ index = IndexGenres /\ args = OnlyGenre(<<"p", "o">>)
    /\ qs.exact = <<>> /\ qs.outcome = "single" /\ qs.played = <<P1>>

\* The value a probed file's field is to have: the tag's when there is one.
Expected(tag, fallback) == IF Len(tag) > 0 THEN tag ELSE fallback

\* C21: an audio or video file that is probed (a cache miss) is emitted, and
\* each of the title, artist, album and genre of its Track is the probed tag
\* when that is not empty, else the file stem for the title and "UNKNOWN" for
\* the others; a file whose probe fails and a file without tags get the four
\* fallback values, and no field of the Track is empty.
C21_ProbeFallback ==
    ret.op = "scan" =>
        \A p \in Range(ret.probed) :
            /\ TracksOf(p) # {}
            /\ \A t \in TracksOf(p) :
                 LET tags == Probe(fs[p].content)
                 IN  /\ t.title = Expected(tags.title, FileStem(p))
                     /\ t.artist = Expected(tags.artist, StrUnknown)
                     /\ t.album = Expected(tags.album, StrUnknown)
                     /\ t.genre = Expected(tags.genre, StrUnknown)
                     /\ fs[p].content \in {"corrupt", "untagged"} =>
                          /\ t.title = FileStem(p)
                          /\ {t.artist, t.album, t.genre} = {StrUnknown}
                     /\ <<>> \notin {t.title, t.artist, t.album, t.genre}
                     /\ t.media_type \in {MediaAudio, MediaVideo}

\* A scan that probed a file whose probe fails and a file with an artist and
\* a genre but no title and no album.
C21_Witness ==
    /\ ret.op = "scan"
    /\ \E p, q \in Range(ret.probed) :
         /\ fs[p].content = "corrupt"
         /\ fs[q].content = "tagB"
         /\ \E t \in TracksOf(q) : t.title = FileStem(q) /\ t.artist = TagsB.artist

\* The extension of the path, in lower case, is one of the set's, each
\* trimmed and in lower case.
InSet(p, exts) ==
    HasExtension(p)
    /\ \E i \in 1..Len(exts) :
         to_lowercase(Trim(exts[i])) = to_lowercase(Extension(p))

\* The class of a file under the configuration of the run: audio before
\* playlist before video, video only when it is enabled.
ClassOf(p) ==
    IF InSet(p, cfg_audio_exts) THEN MediaAudio
    ELSE IF InSet(p, playlist_exts) THEN MediaPlaylist
    ELSE IF video_ok /\ InSet(p, video_exts) THEN MediaVideo
    ELSE MediaNone

\* C22: every Track of a scan's output with the media type playlist has the
\* file stem as its title, "Playlist" as artist and genre and "Playlists" as
\* album, and no file classified as a playlist is probed, be it a cache hit
\* or a cache miss.
C22_PlaylistSynthetic ==
    ret.op = "scan" =>
        /\ \A t \in Range(ret.tracks) :
             t.media_type = MediaPlaylist =>
                /\ t.title = FileStem(t.path)
                /\ t.artist = StrPlaylist
                /\ t.album = StrPlaylists
                /\ t.genre = StrPlaylist
        /\ \A p \in Range(ret.probed) : ClassOf(p) # MediaPlaylist

\* An incremental scan that reuses the Track of the playlist p.m3u.
C22_Witness ==
    /\ ret.op = "scan"
    /\ ClassOf(P3) = MediaPlaylist
    /\ P3 \in Range(ret.hits)
    /\ \E t \in TracksOf(P3) : t.media_type = MediaPlaylist /\ t.title = <<"p">>

\* C23: the class of a file is decided by its extension in lower case: audio
\* if it is in the audio set, else playlist if it is in the playlist set, else
\* video if video is enabled and it is in the video set, else none, and a file
\* of no class yields no Track; B.MP3 is audio when mp3 is in the audio set.
C23_Classification ==
    /\ \A p \in Paths :
         Classify(to_lowercase(Extension(p)), video_ok) = ClassOf(p)
    /\ <<"m", "p", "3">> \in Range(cfg_audio_exts) => ClassOf(P2) = MediaAudio
    /\ ret.op = "scan" =>
         \A p \in Range(Entries(music_dirs, unreadable)) :
            /\ ClassOf(p) = MediaNone => TracksOf(p) = {}
            /\ (ClassOf(p) # MediaNone /\ fs[p].present /\ fs[p].statOk) =>
                 /\ TracksOf(p) # {}
                 /\ p \notin Range(ret.hits) =>
                      \A t \in TracksOf(p) : t.media_type = ClassOf(p)

\* A scan under --ext "mp3, M3U,,mkv": p.m3u, in the audio set and in the
\* playlist set, and B.MP3 are emitted as audio, v.mkv as audio with video
\* disabled, and c.flac or any other file of no class is left out.
C23_Witness ==
    /\ ret.op = "scan" /\ ext_arg.some /\ ~video_ok
    /\ \E t \in TracksOf(P3) : t.media_type = MediaAudio
    /\ \E t \in TracksOf(P2) : t.media_type = MediaAudio
    /\ \E t \in TracksOf(P4) : t.media_type = MediaAudio
    /\ ClassOf(P5) = MediaNone

\* C27: every Track of a scan's output describes a file of that walk: its
\* path is a regular file with a class, present under a configured root the
\* walk got to, and its mtime and size are the file's; an entry of the old
\* snapshot whose path the walk did not visit is not in the output.
C27_OutputIsOfThisWalk ==
    ret.op = "scan" =>
        /\ \A t \in Range(ret.tracks) :
             /\ t.path \in Range(Entries(music_dirs, unreadable))
             /\ \E i \in 1..Len(music_dirs) : IsUnder(t.path, music_dirs[i])
             /\ fs[t.path].present /\ fs[t.path].statOk
             /\ ClassOf(t.path) # MediaNone
             /\ t.mtime = fs[t.path].mtime /\ t.size = fs[t.path].size
        /\ \A o \in Range(ret.old) :
             (o.path \notin Range(Entries(music_dirs, unreadable))
              \/ ~fs[o.path].present) => TracksOf(o.path) = {}

\* An incremental scan whose old snapshot has an entry of a file that is
\* gone, or of a root no longer configured, while another entry is reused.
C27_Witness ==
    /\ ret.op = "scan" /\ ~ret.force /\ ret.hits # <<>>
    /\ \E o \in Range(ret.old) :
         /\ o.path \in Paths
         /\ ~fs[o.path].present
         /\ TracksOf(o.path) = {}

\* C28: the media type of every Track of a scan's output is the class of the
\* file's extension under the extension sets and the video flag of that scan,
\* also when the Track is reused from a snapshot written under others.
C28_MediaTypeIsCurrentClass ==
    ret.op = "scan" =>
        \A t \in Range(ret.tracks) : t.media_type = ClassOf(t.path)

\* C29: when the clarification offered values and the user chose one of them,
\* the query does not end in "No match": the resolved result is not empty.
C29_PickedValueMatches ==
    (qs.pc = "done" /\ qs.clarified.some) =>
        /\ qs.clarified.val \in qs.options
        /\ qs.filtered # <<>>
        /\ qs.outcome # "nomatch"

\* How often a Track is in a collection.
Times(tracks, t) == Cardinality({i \in 1..Len(tracks) : tracks[i] = t})

\* The entries of the walk that are files with a class and readable metadata.
Qualifying ==
    {i \in 1..Len(par.entries) :
        LET p == par.entries[i]
        IN  fs[p].present /\ fs[p].statOk /\ ClassOf(p) # MediaNone}

\* C24: for the same files, configuration and old snapshot, the Tracks scan
\* returns are the same for one worker and for several and for every
\* interleaving of them: each walked entry that qualifies has one Track in the
\* collection, and the collection holds every Track of the serial scan as
\* often as that one does.
C24_SameTracksAnyInterleaving ==
    par.pc = "done" =>
        LET serial == Emitted(ScanResults(music_dirs, unreadable, video_ok, fs,
                                          par.old))
        IN  /\ Len(par.out) = Cardinality(Qualifying)
            /\ Len(par.out) = Len(serial)
            /\ \A t \in Range(serial) \cup Range(par.out) :
                 Times(par.out, t) = Times(serial, t)
            /\ par.threads = 1 => par.out = serial

\* A scan by two workers that collected its Tracks, reused and newly built
\* ones, in another order than the serial scan does.
C24_Witness ==
    /\ par.pc = "done" /\ par.threads = 2
    /\ Len(par.out) >= 3
    /\ par.out # Emitted(ScanResults(music_dirs, unreadable, video_ok, fs, par.old))
    /\ \E t \in Range(par.out) : t \in Range(par.old)
    /\ \E t \in Range(par.out) : t \notin Range(par.old)

\* The files the walk meets that have a class: audio, playlist or video.
ClassifiedFiles ==
    {p \in Range(par.entries) : fs[p].present /\ ClassOf(p) # MediaNone}

\* C25: under every interleaving of the workers the progress counter grows by
\* one for each classified file and by nothing else, so that at the end of
\* the scan it is the number of the files classified as audio, playlist or
\* video.
C25_CounterIsFileCount ==
    /\ par.pc = "scan" => par.pos <= Cardinality(ClassifiedFiles)
    /\ par.pc = "done" => par.pos = Cardinality(ClassifiedFiles)

\* The scan of the files as they are, with the old snapshot given.
ScanOf(old) == Emitted(ScanResults(music_dirs, unreadable, video_ok, fs, old))

\* C26: at a start without a target, when load_index reports a repair, main
\* scans (incrementally, or fully when --reindex is given) and saves the
\* result before a query is resolved or a menu is shown, and goes on with the
\* scan's output, not with the Tracks load_index returned.
C26_RepairThenScan ==
    (mn.flow = "startup" /\ mn.was_repaired /\ mn.pc \in {"ready", "serving"}) =>
        /\ mn.scanned = IF mn.reindex THEN "full" ELSE "incr"
        /\ mn.saved
        /\ mn.tracks = ScanOf(IF mn.reindex THEN <<>> ELSE mn.loaded)
        /\ Persisted(cacheFile) = mn.tracks

\* A start that repaired the index, scanned incrementally and serves Tracks
\* other than the ones load_index returned, some of which were reused.
C26_Witness ==
    /\ mn.flow = "startup" /\ mn.was_repaired /\ ~mn.reindex
    /\ mn.pc = "serving"
    /\ mn.loaded # <<>>
    /\ mn.tracks # mn.loaded
    /\ \E t \in Range(mn.tracks) : t \in Range(mn.loaded)

\* C30: whenever the list of music directories was changed, by the directory
\* manager or by --add-dir / --remove-dir, and the index is synced to it and
\* saved, the changed list is in the configuration file before the sync
\* starts: the configuration file and the index file are of the same
\* directories.
C30_ConfigSavedBeforeSync ==
    (mn.changed /\ (mn.pc \in {"scan", "save"} \/ mn.synced)) =>
        configFile = music_dirs

====
